---- MODULE Spec2Model ----
(***************************************************************************)
(* State-machine model of js/script.js: the portfolio page's controllers   *)
(* (ThemeManager, Navigation, ScrollToTop, AnimationManager, FormHandler,  *)
(* Utils, Performance), the startup function init() and the pageshow       *)
(* listener.  The document (markup, localStorage, scroll position, timers, *)
(* intersection notifications) is the environment of the script.           *)
(***************************************************************************)
EXTENDS Integers, Sequences, FiniteSets, TLC

\* ------------------------------------------------------------------ bounds
\* How many of the markup's elements may be missing from the page.
MaxMissing == 2
\* Scroll positions run over 0 .. MaxScrollUnits * 250 (and one pixel past each).
MaxScrollUnits == 3

\* Longest field value tried against the e-mail pattern.
MaxLen == 6
\* Notifications whose timers may be pending at once.
MaxNotifications == 2
\* Entries an observer may have queued before its callback runs.
MaxQueue == 3

\* ------------------------------------------------------- program constants
NavbarScrollThreshold == 50
ScrollTopThreshold == 500
ActiveLinkOffset == 100

\* --------------------------------------------------------------- variables
VARIABLES
  present,        \* which elements of lines 12-20 (and lazy images) the markup holds
  readyLoading,   \* document.readyState === 'loading' when the script ran
  pc,             \* position inside init(): the module being initialised
  inited,         \* modules whose init() has returned
  listeners,      \* event listeners registered so far
  storage,        \* localStorage 'theme' item
  dataTheme,      \* data-theme attribute of the root element
  iconClasses,    \* class list of the theme button's <i>
  toggleHist,     \* (data-theme, storage) before each of the last toggles in a row
  layout,         \* navbar height and the sections' offsets, as the browser laid them out
  scrollY,        \* window.scrollY
  scrollHandled,  \* outcome of the last scroll handler run
  navbarScrolled, \* navbar has class 'scrolled'
  scrollTopVisible, \* scroll-to-top button has class 'visible'
  activeLinks,    \* navigation links carrying class 'active'
  twin,           \* the scroll state of a second load of the same page
  menuToggleActive, \* menu button has class 'active'
  navLinksActive, \* link list has class 'active'
  bodyOverflow,   \* document.body.style.overflow
  lastClick,      \* the last click handled: its target and the menu before it
  yearSet,        \* the year span shows the current year
  headAdded,      \* what the script appended to <head>: 'style', 'preload'
  fieldCfg,       \* markup of the form's inputs: required, type, parent element
  value,          \* each field's value
  errorClass,     \* fields carrying class 'error'
  errorDivs,      \* per parent element, its .error-message children in order
  notes,          \* notifications created and not yet finished, oldest first
  tracked,        \* the place in notes of one notification followed from its
                  \* creation to its removal; 0 while none is followed, -1 in
                  \* runs that follow none
  lastEvent,      \* the last form event handled and its outcome
  targetKind,     \* markup of the observed elements: which observer watches each
  dataAttr,       \* each observed element's data-width / data-src attribute
  inView,         \* whether the element intersects the viewport at its threshold
  lastReported,   \* the intersection state the observer last queued for it
  observing,      \* per observer, the elements it observes
  ioQueue,        \* per observer, the entries queued for its next callback
  aosAnimate,     \* elements carrying class 'aos-animate'
  barWidth,       \* style.width of each skill bar
  barTimers,      \* pending 200ms timers, oldest first
  imgSrc,         \* src of each lazy image
  imgLoaded,      \* images carrying class 'loaded'
  runs            \* how many times a callback's body has run for each element

initVars == <<present, readyLoading, layout, pc, inited, listeners, yearSet, headAdded>>
themeVars == <<storage, dataTheme, iconClasses, toggleHist>>
scrollVars == <<scrollY, scrollHandled, navbarScrolled, scrollTopVisible, activeLinks>>
menuVars == <<menuToggleActive, navLinksActive, bodyOverflow, lastClick>>
pageVars == <<initVars, themeVars, scrollVars, menuVars, twin>>

formVars == <<fieldCfg, value, errorClass, errorDivs, notes, tracked, lastEvent>>
obsMarkup == <<targetKind, dataAttr>>
obsState == <<inView, lastReported, ioQueue, aosAnimate, barWidth, barTimers, imgSrc, imgLoaded, runs>>
obsVars == <<obsMarkup, observing, obsState>>

vars == <<pageVars, formVars, obsVars>>

\* ------------------------------------------------------------------ markup
\* The page modelled holds a contact form of two inputs (line 252) and two
\* observed elements (lines 19-20, 453).
NumFields == 2

NumTargets == 2

\* The elements the script looks up when it loads (lines 12-20, 453).
Elements ==
  {"navbar", "menuToggle", "navLinks", "themeToggle", "scrollTop",
   "contactForm", "year", "skillBars", "animatedElements", "lazyImages"}

\* init() calls the modules in this order (lines 481-487).
InitOrder ==
  <<"ThemeManager", "Navigation", "ScrollToTop", "AnimationManager",
    "FormHandler", "Utils", "Performance">>

Modules == {InitOrder[i] : i \in 1..Len(InitOrder)}

IndexOf(m) == CHOOSE i \in 1..Len(InitOrder) : InitOrder[i] = m

\* The module init() calls after m, or "return" after the last one.
NextModule(m) ==
  IF IndexOf(m) = Len(InitOrder) THEN "return" ELSE InitOrder[IndexOf(m) + 1]

\* localStorage.getItem returns null for a missing item.
NoItem == "<null>"

\* What localStorage may hold under 'theme' when the page loads.
StoredThemes == {NoItem, "", "light", "dark", "blue"}

\* The theme button's icon as the markup ships it.
MarkupIcon == {"fas", "fa-moon"}

\* Scroll positions the window may report: around each threshold and each
\* half step of the scroll-to-top threshold.
ScrollPositions ==
  UNION {{t, t + 1} :
           t \in {0, NavbarScrollThreshold}
                 \cup {k * (ScrollTopThreshold \div 2) : k \in 0..MaxScrollUnits}}

\* Page layout: navbar.offsetHeight and, in document order, each section[id]
\* with its offsetTop and offsetHeight.  "skills" has no navigation link.
Layout ==
  [navbarHeight |-> 50,
   sections |-> << [id |-> "home",    top |-> 0,   height |-> 200],
                   [id |-> "about",   top |-> 200, height |-> 200],
                   [id |-> "skills",  top |-> 400, height |-> 250],
                   [id |-> "contact", top |-> 650, height |-> 250] >>]

\* The same page with a margin above "about" (position 200 lies in no
\* section) and a section without a link nested at the top of "contact".
NestedLayout ==
  [navbarHeight |-> 50,
   sections |-> << [id |-> "home",         top |-> 0,   height |-> 200],
                   [id |-> "about",        top |-> 201, height |-> 199],
                   [id |-> "skills",       top |-> 400, height |-> 250],
                   [id |-> "contact",      top |-> 650, height |-> 250],
                   [id |-> "contact-form", top |-> 651, height |-> 100] >>]

Layouts == {Layout, NestedLayout}

\* The links of the menu, each named by the section id its href ('#id') gives.
NavLinks == {"home", "about", "contact"}

\* The contact form's inputs, in document order.
Fields == 1..NumFields

\* An input's markup: the required attribute, the type, and the parent
\* element (named by the first field inside it).
FieldConfigs ==
  {cfg \in [Fields -> [required : BOOLEAN, type : {"text", "email"}, parent : Fields]] :
     \A f \in Fields : cfg[f].parent <= f /\ cfg[cfg[f].parent].parent = cfg[f].parent}

\* Field values are strings over this alphabet, as sequences of characters.
Alphabet == {"a", "@", ".", " "}

Whitespace == {" "}

RECURSIVE StringsUpTo(_)
StringsUpTo(n) ==
  IF n = 0 THEN {<<>>}
  ELSE LET shorter == StringsUpTo(n - 1) IN
       shorter \cup {Append(s, c) : s \in {x \in shorter : Len(x) = n - 1}, c \in Alphabet}

\* The values a user types into the form's fields.
FieldValues ==
  {<<>>, <<" ">>, <<"a">>, <<"a", "@", "a", ".", "a">>}

\* The value attribute each input has in the markup: none.
DefaultValue(f) == <<>>

\* The observed elements and the observers: reveal (initAOS), skill bars
\* (initSkillBars), lazy images (lazyLoadImages).
Targets == 1..NumTargets

Observers == <<"aos", "skill", "image">>

ObserverSet == {Observers[i] : i \in 1..Len(Observers)}

\* The collection of lines 19-20 and 453 an observer's elements come from.
CollectionOf(o) ==
  CASE o = "aos" -> "animatedElements"
    [] o = "skill" -> "skillBars"
    [] o = "image" -> "lazyImages"

\* The ways the observed elements divide over the three collections, the
\* elements of a collection numbered together.
KindAssignments ==
  {kinds \in [Targets -> ObserverSet] :
     \A t \in Targets \ {1} :
       \E i \in 1..Len(Observers) : \E j \in i..Len(Observers) :
         kinds[t - 1] = Observers[i] /\ kinds[t] = Observers[j]}

\* The data-width or data-src values the markup may give (or leave out).
DataAttrs == {NoItem, "80"}

\* The markup the page specifications use for the form and the observed
\* elements.
DefaultFields ==
  [f \in Fields |-> [required |-> TRUE,
                     type |-> IF f = 2 THEN "email" ELSE "text",
                     parent |-> f]]

DefaultKinds == [t \in Targets |-> Observers[((t - 1) % Len(Observers)) + 1]]

\* ------------------------------------------------------------ ThemeManager
\* get(): the attribute, or 'light' when it is missing or empty.
ThemeGet(attr) == IF attr \in {NoItem, ""} THEN "light" ELSE attr

\* init(): localStorage.getItem('theme') || 'light'.
SavedTheme(item) == IF item \in {NoItem, ""} THEN "light" ELSE item

ToggledThemeStuck(currentTheme) == "dark"

\* toggle(): the theme toggle() hands to setTheme.
ToggledTheme(currentTheme) == IF currentTheme = "light" THEN "dark" ELSE "light"

\* updateIcon(theme) on the icon's class list.
UpdateIcon(classes, theme) ==
  IF theme = "dark"
  THEN (classes \ {"fa-moon"}) \cup {"fa-sun"}
  ELSE (classes \ {"fa-sun"}) \cup {"fa-moon"}

\* setTheme(theme) writes the attribute and the storage, then updateIcon reads
\* themeToggle: with the button missing it throws after both writes.
SetThemeThrows == "themeToggle" \notin present

SetTheme(theme) ==
  /\ dataTheme' = theme
  /\ storage' = theme
  /\ iconClasses' = IF SetThemeThrows THEN iconClasses ELSE UpdateIcon(iconClasses, theme)

\* The snapshots kept of the states before the last two toggles in a row.
Remember(hist, snap) ==
  IF Len(hist) < 2 THEN Append(hist, snap) ELSE <<hist[2], snap>>

\* -------------------------------------------------------------- Navigation
\* Click targets, and which of them lie inside the navbar element.
ClickTargets == {"menuToggle", "navLink", "themeToggle", "navbarOther", "outside"}

InNavbar == {"menuToggle", "navLink", "themeToggle", "navbarOther"}

\* The element of the markup a click target needs.
TargetElement(target) ==
  CASE target = "menuToggle" -> {"menuToggle"}
    [] target = "navLink" -> {"navLinks"}
    [] target = "themeToggle" -> {"themeToggle"}
    [] target = "navbarOther" -> {"navbar"}
    [] OTHER -> {}

Menu == [mt |-> menuToggleActive, nl |-> navLinksActive, ov |-> bodyOverflow]

\* A toggleMobileMenu that toggles the button's class alone.
ToggleButtonOnly(m) == [m EXCEPT !.mt = ~m.mt]

\* toggleMobileMenu(): with navLinks missing it throws after the first toggle.
ToggleMobileMenu(m) ==
  IF "navLinks" \notin present
  THEN [m EXCEPT !.mt = ~m.mt]
  ELSE [mt |-> ~m.mt, nl |-> ~m.nl, ov |-> IF ~m.nl THEN "hidden" ELSE ""]

\* A closeMobileMenu that leaves the menu as it is.
KeepMobileMenu(m) == m

\* closeMobileMenu().
CloseMobileMenu(m) == [mt |-> FALSE, nl |-> FALSE, ov |-> ""]

\* The listeners on the click's target (lines 71, 75).
TargetClick(target, m) ==
  CASE target = "menuToggle" /\ "menuClick" \in listeners -> ToggleMobileMenu(m)
    [] target = "navLink" /\ "linkClick" \in listeners -> CloseMobileMenu(m)
    [] OTHER -> m

\* The document's click listener (lines 79-83); navbar.contains throws when
\* navbar is missing.
DocumentClick(target, m) ==
  IF /\ "docClick" \in listeners
     /\ "navbar" \in present
     /\ target \notin InNavbar
     /\ m.nl
  THEN CloseMobileMenu(m)
  ELSE m

SetMenu(m) ==
  /\ menuToggleActive' = m.mt
  /\ navLinksActive' = m.nl
  /\ bodyOverflow' = m.ov

\* A click anywhere but on the theme button: the target's listeners, then the
\* document's.
Click(target) ==
  /\ pc \in {"done", "failed"}
  /\ target # "themeToggle"
  /\ TargetElement(target) \subseteq present
  /\ SetMenu(DocumentClick(target, TargetClick(target, Menu)))
  /\ lastClick' = [target |-> target, before |-> Menu]
  /\ UNCHANGED <<initVars, themeVars, scrollVars>>
  /\ UNCHANGED <<twin, formVars, obsVars>>

\* A click on the theme button: toggle(), then the document's listener.
ClickTheme ==
  /\ pc \in {"done", "failed"}
  /\ "themeClick" \in listeners
  /\ SetTheme(ToggledTheme(ThemeGet(dataTheme)))
  /\ toggleHist' = Remember(toggleHist, [attr |-> dataTheme, item |-> storage])
  /\ SetMenu(DocumentClick("themeToggle", Menu))
  /\ lastClick' = [target |-> "themeToggle", before |-> Menu]
  /\ UNCHANGED <<initVars, scrollVars>>
  /\ UNCHANGED <<twin, formVars, obsVars>>

\* The pageshow listener (lines 500-504).
PageShow(persisted) ==
  /\ pc \in {"done", "failed"}
  /\ "pageshow" \in listeners
  /\ IF persisted
     THEN /\ SetTheme(ThemeGet(dataTheme))
          /\ toggleHist' = <<>>
     ELSE UNCHANGED themeVars
  /\ UNCHANGED <<initVars, scrollVars, menuVars>>
  /\ UNCHANGED <<twin, formVars, obsVars>>

\* Whether scrollPos lies in the section's span [top, top + height).
InSection(scrollPos, section) ==
  scrollPos >= section.top /\ scrollPos < section.top + section.height

\* An updateActiveNavLink that never removes 'active' from a link.
RECURSIVE ActiveAfterKeeping(_, _, _)
ActiveAfterKeeping(i, scrollPos, active) ==
  IF i > Len(layout.sections) THEN active
  ELSE LET section == layout.sections[i] IN
       ActiveAfterKeeping(i + 1, scrollPos,
                          IF InSection(scrollPos, section)
                          THEN active \cup {l \in NavLinks : l = section.id}
                          ELSE active)

\* updateActiveNavLink(): the sections in document order; each one holding
\* scrollPos clears 'active' on every link and sets it on the link to itself.
RECURSIVE ActiveAfter(_, _, _)
ActiveAfter(i, scrollPos, active) ==
  IF i > Len(layout.sections) THEN active
  ELSE LET section == layout.sections[i] IN
       ActiveAfter(i + 1, scrollPos,
                   IF InSection(scrollPos, section)
                   THEN {l \in NavLinks : l = section.id}
                   ELSE active)

ScrollPos(y) == y + layout.navbarHeight + ActiveLinkOffset

NavbarScrolledAt(y) == y > NavbarScrollThreshold

ScrollTopVisibleAtOrAbove(y) == y >= ScrollTopThreshold

ScrollTopVisibleAt(y) == y > ScrollTopThreshold

\* A scroll event at position y: handleScroll() when its listener is
\* registered.  It throws at the first missing element it reads: navbar
\* (line 131), then scrollTopBtn (line 138); navLinks is registered-for only
\* when present.
Scroll(y) ==
  /\ pc \in {"done", "failed"}
  /\ scrollY' = y
  /\ IF "scroll" \notin listeners
     THEN UNCHANGED <<scrollHandled, navbarScrolled, scrollTopVisible, activeLinks>>
     ELSE IF "navbar" \notin present
     THEN /\ scrollHandled' = "threw"
          /\ UNCHANGED <<navbarScrolled, scrollTopVisible, activeLinks>>
     ELSE IF "scrollTop" \notin present
     THEN /\ scrollHandled' = "threw"
          /\ navbarScrolled' = NavbarScrolledAt(y)
          /\ UNCHANGED <<scrollTopVisible, activeLinks>>
     ELSE /\ scrollHandled' = "done"
          /\ navbarScrolled' = NavbarScrolledAt(y)
          /\ scrollTopVisible' = ScrollTopVisibleAt(y)
          /\ activeLinks' = ActiveAfter(1, ScrollPos(y), activeLinks)
  /\ UNCHANGED <<initVars, themeVars, menuVars>>
  /\ UNCHANGED <<twin, formVars, obsVars>>

\* The scroll state of a page on which no scroll event has been handled.
TwinStart ==
  [scrollY |-> 0, scrollHandled |-> "none", navbarScrolled |-> FALSE,
   scrollTopVisible |-> FALSE, activeLinks |-> {}]

\* The same scroll event on the second load of the page, whose markup is
\* complete: handleScroll() (lines 127-146) on that page's own classes.
ScrollTwin(y) ==
  /\ pc = "done"
  /\ "scroll" \in listeners
  /\ present = Elements
  /\ twin' = [scrollY |-> y,
              scrollHandled |-> "done",
              navbarScrolled |-> NavbarScrolledAt(y),
              scrollTopVisible |-> ScrollTopVisibleAt(y),
              activeLinks |-> ActiveAfter(1, ScrollPos(y), twin.activeLinks)]
  /\ UNCHANGED <<initVars, themeVars, scrollVars, menuVars>>
  /\ UNCHANGED <<formVars, obsVars>>

\* ------------------------------------------------------------------ init()
\* The elements observer.observe is called on: forEach over the collection.
ObservedAtInit(o) ==
  IF CollectionOf(o) \in present THEN {t \in Targets : targetKind[t] = o} ELSE {}

Fail == pc' = "failed" /\ UNCHANGED inited

Return(m) == pc' = NextModule(m) /\ inited' = inited \cup {m}

\* ThemeManager.init (lines 27-34).
ThemeManagerInit ==
  /\ pc = "ThemeManager"
  /\ SetTheme(SavedTheme(storage))
  /\ IF SetThemeThrows
     THEN Fail /\ UNCHANGED listeners
     ELSE Return("ThemeManager") /\ listeners' = listeners \cup {"themeClick"}
  /\ UNCHANGED <<present, readyLoading, layout, yearSet, headAdded, toggleHist, scrollVars, menuVars>>
  /\ UNCHANGED <<twin, formVars, obsVars>>

\* Navigation.init (lines 69-92): menuToggle is read at line 71, navLinks at
\* line 74; navbar only inside the handlers.
NavigationInit ==
  /\ pc = "Navigation"
  /\ IF "menuToggle" \notin present
     THEN Fail /\ UNCHANGED listeners
     ELSE IF "navLinks" \notin present
     THEN Fail /\ listeners' = listeners \cup {"menuClick"}
     ELSE /\ Return("Navigation")
          /\ listeners' = listeners \cup
               {"menuClick", "linkClick", "docClick", "anchorClick", "scroll"}
  /\ UNCHANGED <<present, readyLoading, layout, yearSet, headAdded, themeVars, scrollVars, menuVars>>
  /\ UNCHANGED <<twin, formVars, obsVars>>

\* ScrollToTop.init (lines 174-181).
ScrollToTopInit ==
  /\ pc = "ScrollToTop"
  /\ IF "scrollTop" \notin present
     THEN Fail /\ UNCHANGED listeners
     ELSE Return("ScrollToTop") /\ listeners' = listeners \cup {"scrollTopClick"}
  /\ UNCHANGED <<present, readyLoading, layout, yearSet, headAdded, themeVars, scrollVars, menuVars>>
  /\ UNCHANGED <<twin, formVars, obsVars>>

\* AnimationManager.init (lines 189-238): forEach over a NodeList that may
\* be empty.
AnimationManagerInit ==
  /\ pc = "AnimationManager"
  /\ Return("AnimationManager")
  /\ observing' = [observing EXCEPT !["aos"] = ObservedAtInit("aos"),
                                    !["skill"] = ObservedAtInit("skill")]
  /\ UNCHANGED <<present, readyLoading, layout, listeners, yearSet, headAdded, themeVars, scrollVars, menuVars>>
  /\ UNCHANGED <<twin, formVars, obsMarkup, obsState>>

\* FormHandler.init (lines 246-257): returns at once without the form.
FormHandlerInit ==
  /\ pc = "FormHandler"
  /\ Return("FormHandler")
  /\ listeners' = IF "contactForm" \notin present
                  THEN listeners
                  ELSE listeners \cup {"formSubmit", "fieldBlur", "fieldInput"}
  /\ UNCHANGED <<present, readyLoading, layout, yearSet, headAdded, themeVars, scrollVars, menuVars>>
  /\ UNCHANGED <<twin, formVars, obsVars>>

UtilsInitUnguarded ==
  /\ pc = "Utils"
  /\ IF "year" \notin present
     THEN Fail /\ UNCHANGED <<yearSet, headAdded>>
     ELSE Return("Utils") /\ yearSet' = TRUE /\ headAdded' = headAdded \cup {"style"}
  /\ UNCHANGED <<present, readyLoading, layout, listeners, themeVars, scrollVars, menuVars>>
  /\ UNCHANGED <<twin, formVars, obsVars>>

\* Utils.init (lines 383-391): the year span is guarded.
UtilsInit ==
  /\ pc = "Utils"
  /\ Return("Utils")
  /\ yearSet' = ("year" \in present)
  /\ headAdded' = headAdded \cup {"style"}
  /\ UNCHANGED <<present, readyLoading, layout, listeners, themeVars, scrollVars, menuVars>>
  /\ UNCHANGED <<twin, formVars, obsVars>>

\* Performance.init (lines 432-438).
PerformanceInit ==
  /\ pc = "Performance"
  /\ Return("Performance")
  /\ observing' = [observing EXCEPT !["image"] = ObservedAtInit("image")]
  /\ headAdded' = headAdded \cup {"preload"}
  /\ UNCHANGED <<present, readyLoading, layout, listeners, yearSet, themeVars, scrollVars, menuVars>>
  /\ UNCHANGED <<twin, formVars, obsMarkup, obsState>>

\* init() returns (line 490); a script that called init() itself (line 496)
\* goes on to register the pageshow listener (line 500).
InitReturn ==
  /\ pc = "return"
  /\ pc' = "done"
  /\ listeners' = listeners \cup {"pageshow"}
  /\ UNCHANGED <<present, readyLoading, layout, inited, yearSet, headAdded, themeVars, scrollVars, menuVars>>
  /\ UNCHANGED <<twin, formVars, obsVars>>

\* ------------------------------------------------------------- FormHandler
\* String.prototype.trim: drop the whitespace at both ends.
RECURSIVE TrimStart(_)
TrimStart(s) ==
  IF s # <<>> /\ Head(s) \in Whitespace THEN TrimStart(Tail(s)) ELSE s

RECURSIVE TrimEnd(_)
TrimEnd(s) ==
  IF s # <<>> /\ s[Len(s)] \in Whitespace THEN TrimEnd(SubSeq(s, 1, Len(s) - 1)) ELSE s

TrimNothing(s) == s

Trim(s) == TrimEnd(TrimStart(s))

\* [^\s@]+ : a non-empty run without whitespace or '@'.
IsRun(s, from, to) ==
  /\ from <= to
  /\ \A k \in from..to : s[k] \notin Whitespace \cup {"@"}

EmailRegexNoDot(s) ==
  \E i \in 1..Len(s) : s[i] = "@" /\ IsRun(s, 1, i - 1) /\ IsRun(s, i + 1, Len(s))

\* /^[^\s@]+@[^\s@]+\.[^\s@]+$/.test(s): some '@' at i and some '.' at j with
\* a run before i, between i and j, and after j.
EmailRegexTest(s) ==
  \E i \in 1..Len(s) : \E j \in 1..Len(s) :
    /\ s[i] = "@"
    /\ s[j] = "."
    /\ IsRun(s, 1, i - 1)
    /\ IsRun(s, i + 1, j - 1)
    /\ IsRun(s, j + 1, Len(s))

RequiredMessage == "This field is required"

EmailMessage == "Please enter a valid email address"

\* The error display of the form: the fields with class 'error' and each
\* parent's .error-message children.
Shown == [cls |-> errorClass, divs |-> errorDivs]

\* clearError(field): drops the class, and removes the first .error-message
\* found inside the field's parent.
ClearError(f, shown) ==
  LET g == fieldCfg[f].parent IN
  [cls |-> shown.cls \ {f},
   divs |-> [shown.divs EXCEPT ![g] = IF shown.divs[g] = <<>> THEN <<>> ELSE Tail(shown.divs[g])]]

\* showError(field, message): adds the class and appends a new div to the
\* field's parent.
ShowError(f, message, shown) ==
  LET g == fieldCfg[f].parent IN
  [cls |-> shown.cls \cup {f},
   divs |-> [shown.divs EXCEPT ![g] = Append(shown.divs[g], [owner |-> f, text |-> message])]]

\* The required check of validateField (line 297) on the trimmed value.
RequiredFails(f, v) == fieldCfg[f].required /\ v = <<>>

\* The e-mail check of validateField (lines 303-309) on the trimmed value.
EmailFails(f, v) == fieldCfg[f].type = "email" /\ v # <<>> /\ ~EmailRegexTest(v)

\* validateField(field): the value it returns and the error display it leaves.
ValidateField(f, shown) ==
  LET v == Trim(value[f])
      cleared == ClearError(f, shown)
      message == IF EmailFails(f, v) THEN EmailMessage
                 ELSE IF RequiredFails(f, v) THEN RequiredMessage
                 ELSE ""
      isValid == ~RequiredFails(f, v) /\ ~EmailFails(f, v)
  IN [ok |-> isValid,
      shown |-> IF isValid THEN cleared ELSE ShowError(f, message, cleared)]

\* handleSubmit's loop (lines 269-273): validateField on every input in
\* document order, none skipped.
RECURSIVE ValidateAll(_, _)
ValidateUntilFirstFailure(f, acc) ==
  IF f > NumFields \/ ~acc.ok THEN acc
  ELSE LET r == ValidateField(f, acc.shown) IN
       ValidateAll(f + 1, [ok |-> acc.ok /\ r.ok, shown |-> r.shown])

ValidateAll(f, acc) ==
  IF f > NumFields THEN acc
  ELSE LET r == ValidateField(f, acc.shown) IN
       ValidateAll(f + 1, [ok |-> acc.ok /\ r.ok, shown |-> r.shown])

\* document.querySelector('.notification'): the first one in the document.
Displayed(ns) == {i \in 1..Len(ns) : ns[i].inDoc}

FirstDisplayed(ns) == CHOOSE i \in Displayed(ns) : \A j \in Displayed(ns) : i <= j

\* The element showNotification creates (lines 346-369) and its timer (371).
AppendNotification(kind, ns) ==
  Append(ns, [kind |-> kind, inDoc |-> TRUE, animation |-> "slideIn", timer |-> "5000"])

ShowNotificationKeepingOld(kind, ns) == AppendNotification(kind, ns)

\* showNotification(message, type): removes the displayed notification, adds
\* the new one and starts its 5000ms timer.
ShowNotification(kind, ns) ==
  AppendNotification(kind,
    IF Displayed(ns) = {} THEN ns
    ELSE [ns EXCEPT ![FirstDisplayed(ns)].inDoc = FALSE])

NoReset == value

\* contactForm.reset(): every input back to its default value.
ResetForm == [f \in Fields |-> DefaultValue(f)]

\* What lastEvent records: the handler that ran, the field or notification it
\* ran for, its outcome, and the values or notifications before it ran.
Event(kind, f, ok, before) ==
  [kind |-> kind, field |-> f, ok |-> ok, before |-> before, notes |-> <<>>]

\* The same for a timer: the notification it ran for and the notifications
\* before it ran.
TimerEvent(kind, i, ok, ns) ==
  [kind |-> kind, field |-> i, ok |-> ok, before |-> <<>>, notes |-> ns]

SetShown(shown) ==
  /\ errorClass' = shown.cls
  /\ errorDivs' = shown.divs

FormReady == pc \in {"done", "failed"}

\* blur on a field (line 254).
Blur(f) ==
  /\ FormReady
  /\ "fieldBlur" \in listeners
  /\ LET r == ValidateField(f, Shown) IN
       /\ SetShown(r.shown)
       /\ lastEvent' = Event("blur", f, r.ok, <<>>)
  /\ UNCHANGED <<fieldCfg, value, notes, tracked, pageVars, obsVars>>

\* The user changes a field's value to v: the input event (line 255).
Input(f, v) ==
  /\ FormReady
  /\ v # value[f]
  /\ value' = [value EXCEPT ![f] = v]
  /\ IF "fieldInput" \in listeners
     THEN SetShown(ClearError(f, Shown))
     ELSE UNCHANGED <<errorClass, errorDivs>>
  /\ lastEvent' = Event("input", f, TRUE, <<>>)
  /\ UNCHANGED <<fieldCfg, notes, tracked, pageVars, obsVars>>

\* submit on the form: handleSubmit (lines 259-286).
Submit ==
  /\ FormReady
  /\ "formSubmit" \in listeners
  /\ Len(notes) < MaxNotifications
  /\ LET r == ValidateAll(1, [ok |-> TRUE, shown |-> Shown]) IN
       /\ SetShown(r.shown)
       /\ notes' = ShowNotification(IF r.ok THEN "success" ELSE "error", notes)
       /\ value' = IF r.ok THEN ResetForm ELSE value
       /\ lastEvent' = Event("submit", 0, r.ok, value)
  /\ \/ UNCHANGED tracked
     \/ tracked = 0 /\ tracked' = Len(notes) + 1
  /\ UNCHANGED <<fieldCfg, pageVars, obsVars>>

\* A 5000ms timer that starts the fade-out and sets no second timer.
DismissTimerOnlyFades(i) ==
  /\ i \in 1..Len(notes)
  /\ notes[i].timer = "5000"
  /\ \A j \in 1..(i - 1) : notes[j].timer # "5000"
  /\ notes' = [notes EXCEPT ![i].animation = "slideOut", ![i].timer = "none"]
  /\ lastEvent' = TimerEvent("dismissTimer", i, TRUE, notes)
  /\ UNCHANGED <<fieldCfg, value, errorClass, errorDivs, tracked, pageVars, obsVars>>

\* The 5000ms timer of notification i fires (lines 371-374); timers of equal
\* delay fire in the order they were set.
DismissTimer(i) ==
  /\ i \in 1..Len(notes)
  /\ notes[i].timer = "5000"
  /\ \A j \in 1..(i - 1) : notes[j].timer # "5000"
  /\ notes' = [notes EXCEPT ![i].animation = "slideOut", ![i].timer = "300"]
  /\ lastEvent' = TimerEvent("dismissTimer", i, TRUE, notes)
  /\ UNCHANGED <<fieldCfg, value, errorClass, errorDivs, tracked, pageVars, obsVars>>

\* The notifications without the one at place i.
Without(ns, i) == [j \in 1..(Len(ns) - 1) |-> IF j < i THEN ns[j] ELSE ns[j + 1]]

\* A 300ms timer that removes whichever notification is displayed.
RemoveTimerDisplayed(i) ==
  /\ i \in 1..Len(notes)
  /\ notes[i].timer = "300"
  /\ \A j \in 1..(i - 1) : notes[j].timer # "300"
  /\ notes' = Without(IF Displayed(notes) = {} THEN notes
                      ELSE [notes EXCEPT ![FirstDisplayed(notes)].inDoc = FALSE], i)
  /\ tracked' = IF tracked = i THEN 0
                ELSE IF tracked > i THEN tracked - 1
                ELSE tracked
  /\ lastEvent' = TimerEvent("removeTimer", i, tracked = i, notes)
  /\ UNCHANGED <<fieldCfg, value, errorClass, errorDivs, pageVars, obsVars>>

\* The 300ms timer of notification i fires (line 373): notification.remove().
\* Nothing refers to the notification afterwards, so it leaves the model.
RemoveTimer(i) ==
  /\ i \in 1..Len(notes)
  /\ notes[i].timer = "300"
  /\ \A j \in 1..(i - 1) : notes[j].timer # "300"
  /\ notes' = Without(notes, i)
  /\ tracked' = IF tracked = i THEN 0
                ELSE IF tracked > i THEN tracked - 1
                ELSE tracked
  /\ lastEvent' = TimerEvent("removeTimer", i, tracked = i, notes)
  /\ UNCHANGED <<fieldCfg, value, errorClass, errorDivs, pageVars, obsVars>>

\* ------------------------------------------- intersection observer callbacks
Reported(isIntersecting) == IF isIntersecting THEN "yes" ELSE "no"

\* The page scrolls or resizes: the element enters or leaves the viewport.
ViewportChange(t) ==
  /\ pc \in {"done", "failed"}
  /\ inView' = [inView EXCEPT ![t] = ~inView[t]]
  /\ UNCHANGED <<lastReported, ioQueue, aosAnimate, barWidth, barTimers, imgSrc, imgLoaded, runs>>
  /\ UNCHANGED <<pageVars, formVars, obsMarkup, observing>>

\* The browser's intersection check for an observed element: it queues an
\* entry when the element's state differs from the last one queued (the first
\* check always queues one).
Notice(t) ==
  LET o == targetKind[t] IN
  /\ pc \in {"done", "failed"}
  /\ t \in observing[o]
  /\ lastReported[t] # Reported(inView[t])
  /\ Len(ioQueue[o]) < MaxQueue
  /\ ioQueue' = [ioQueue EXCEPT ![o] =
                   Append(@, [target |-> t, isIntersecting |-> inView[t]])]
  /\ lastReported' = [lastReported EXCEPT ![t] = Reported(inView[t])]
  /\ UNCHANGED <<inView, aosAnimate, barWidth, barTimers, imgSrc, imgLoaded, runs>>
  /\ UNCHANGED <<pageVars, formVars, obsMarkup, observing>>

\* entries.forEach: the entries with entry.isIntersecting, in order.
Intersecting(entries) == SelectSeq(entries, LAMBDA e : e.isIntersecting)

TargetsIn(entries) == {entries[k].target : k \in 1..Len(entries)}

\* The timers the skill-bar callback sets (lines 225-230), one per
\* intersecting entry, each holding the data-width read at that moment.
RECURSIVE TimersFor(_)
TimersFor(entries) ==
  IF entries = <<>> THEN <<>>
  ELSE <<[target |-> Head(entries).target, width |-> dataAttr[Head(entries).target]]>>
       \o TimersFor(Tail(entries))

\* img.src = img.dataset.src || img.src (line 446).
SwappedSrc(t) == IF dataAttr[t] \in {NoItem, ""} THEN imgSrc[t] ELSE dataAttr[t]

\* How many of the entries are about element t: the callback's body runs
\* once for each.
EntriesFor(t, entries) == Len(SelectSeq(entries, LAMBDA e : e.target = t))

\* A callback that never calls unobserve.
UnobserveNothing(observed, hit) == observed

\* observer.unobserve(entry.target) for every intersecting entry (lines 206,
\* 232, 449).
Unobserve(observed, hit) == observed \ hit

\* The class list change of the reveal callback (line 205).
Reveal(hit) == aosAnimate \cup hit

\* A callback that keeps observing and follows the element's last entry.
DeliverFollowingVisibility(o) ==
  LET entries == Intersecting(ioQueue[o])
      hit == TargetsIn(entries)
      last(t) == CHOOSE k \in 1..Len(ioQueue[o]) :
                   /\ ioQueue[o][k].target = t
                   /\ \A j \in (k + 1)..Len(ioQueue[o]) : ioQueue[o][j].target # t
  IN
  /\ pc \in {"done", "failed"}
  /\ ioQueue[o] # <<>>
  /\ ioQueue' = [ioQueue EXCEPT ![o] = <<>>]
  /\ aosAnimate' = IF o = "aos"
                   THEN {t \in Targets :
                           IF t \in TargetsIn(ioQueue[o])
                           THEN ioQueue[o][last(t)].isIntersecting
                           ELSE t \in aosAnimate}
                   ELSE aosAnimate
  /\ barTimers' = IF o = "skill" THEN barTimers \o TimersFor(entries) ELSE barTimers
  /\ imgSrc' = IF o = "image"
               THEN [t \in Targets |-> IF t \in hit THEN SwappedSrc(t) ELSE imgSrc[t]]
               ELSE imgSrc
  /\ imgLoaded' = IF o = "image" THEN imgLoaded \cup hit ELSE imgLoaded
  /\ runs' = [t \in Targets |-> runs[t] + EntriesFor(t, entries)]
  /\ UNCHANGED <<inView, lastReported, barWidth, observing>>
  /\ UNCHANGED <<pageVars, formVars, obsMarkup>>

\* An observer's callback runs on its queued entries (lines 202-209, 221-235,
\* 442-451); every intersecting entry's target is unobserved.
Deliver(o) ==
  LET entries == Intersecting(ioQueue[o])
      hit == TargetsIn(entries)
  IN
  /\ pc \in {"done", "failed"}
  /\ ioQueue[o] # <<>>
  /\ ioQueue' = [ioQueue EXCEPT ![o] = <<>>]
  /\ observing' = [observing EXCEPT ![o] = Unobserve(@, hit)]
  /\ aosAnimate' = IF o = "aos" THEN Reveal(hit) ELSE aosAnimate
  /\ barTimers' = IF o = "skill" THEN barTimers \o TimersFor(entries) ELSE barTimers
  /\ imgSrc' = IF o = "image"
               THEN [t \in Targets |-> IF t \in hit THEN SwappedSrc(t) ELSE imgSrc[t]]
               ELSE imgSrc
  /\ imgLoaded' = IF o = "image" THEN imgLoaded \cup hit ELSE imgLoaded
  /\ runs' = [t \in Targets |-> runs[t] + EntriesFor(t, entries)]
  /\ UNCHANGED <<inView, lastReported, barWidth>>
  /\ UNCHANGED <<pageVars, formVars, obsMarkup>>

\* progressBar.style.width = `${width}%` (line 229): 'null%' is not a valid
\* width and leaves the style as it was.
WidthSet(old, width) == IF width = NoItem THEN old ELSE width

\* A timer callback that fills the bar only while it is in the viewport.
BarTimerIfVisible ==
  /\ barTimers # <<>>
  /\ barWidth' = [barWidth EXCEPT ![Head(barTimers).target] =
                    IF inView[Head(barTimers).target]
                    THEN WidthSet(@, Head(barTimers).width)
                    ELSE @]
  /\ barTimers' = Tail(barTimers)
  /\ UNCHANGED <<inView, lastReported, ioQueue, aosAnimate, imgSrc, imgLoaded, runs>>
  /\ UNCHANGED <<pageVars, formVars, obsMarkup, observing>>

\* The oldest 200ms timer fires.
BarTimer ==
  /\ barTimers # <<>>
  /\ barWidth' = [barWidth EXCEPT ![Head(barTimers).target] =
                    WidthSet(@, Head(barTimers).width)]
  /\ barTimers' = Tail(barTimers)
  /\ UNCHANGED <<inView, lastReported, ioQueue, aosAnimate, imgSrc, imgLoaded, runs>>
  /\ UNCHANGED <<pageVars, formVars, obsMarkup, observing>>

\* ---------------------------------------------------------- specifications
\* The script starts on a page whose markup lacks the elements not in p.
PageLoads(p) ==
  /\ present = p
  /\ readyLoading \in BOOLEAN
  /\ pc = "ThemeManager"
  /\ inited = {}
  /\ listeners = IF readyLoading THEN {"pageshow"} ELSE {}
  /\ yearSet = FALSE
  /\ headAdded = {}
  /\ storage \in StoredThemes
  /\ dataTheme = NoItem
  /\ iconClasses = MarkupIcon
  /\ toggleHist = <<>>
  /\ twin = TwinStart
  /\ scrollY = 0
  /\ scrollHandled = "none"
  /\ navbarScrolled = FALSE
  /\ scrollTopVisible = FALSE
  /\ activeLinks = {}
  /\ menuToggleActive = FALSE
  /\ navLinksActive = FALSE
  /\ bodyOverflow = ""
  /\ lastClick = [target |-> "none", before |-> Menu]

\* The form as the markup ships it: default values, no error shown.
FormLoads(cfg) ==
  /\ fieldCfg = cfg
  /\ value = [f \in Fields |-> DefaultValue(f)]
  /\ errorClass = {}
  /\ errorDivs = [g \in Fields |-> <<>>]
  /\ notes = <<>>
  /\ tracked = -1
  /\ lastEvent = Event("none", 0, TRUE, <<>>)

\* The observed elements before any observer is created.
TargetsLoad(kinds) ==
  /\ targetKind = kinds
  /\ dataAttr \in [Targets -> DataAttrs]
  /\ \A t \in Targets : kinds[t] = "aos" => dataAttr[t] = NoItem
  /\ inView = [t \in Targets |-> FALSE]
  /\ lastReported = [t \in Targets |-> "none"]
  /\ ioQueue = [o \in ObserverSet |-> <<>>]
  /\ aosAnimate = {}
  /\ barWidth = [t \in Targets |-> ""]
  /\ barTimers = <<>>
  /\ imgSrc = [t \in Targets |-> "placeholder"]
  /\ imgLoaded = {}
  /\ runs = [t \in Targets |-> 0]

NextPage ==
  \/ ThemeManagerInit
  \/ NavigationInit
  \/ ScrollToTopInit
  \/ AnimationManagerInit
  \/ FormHandlerInit
  \/ UtilsInit
  \/ PerformanceInit
  \/ InitReturn
  \/ ClickTheme
  \/ \E persisted \in BOOLEAN : PageShow(persisted)
  \/ \E target \in ClickTargets : Click(target)
  \/ \E y \in ScrollPositions : Scroll(y)

\* The page as the markup contract describes it: every element present.
PageMarkup ==
  /\ FormLoads(DefaultFields)
  /\ TargetsLoad(DefaultKinds)
  /\ dataAttr = [t \in Targets |-> NoItem]
  /\ observing = [o \in ObserverSet |-> {}]

InitPage == PageLoads(Elements) /\ layout \in Layouts /\ PageMarkup

SpecPage == InitPage /\ [][NextPage]_vars

\* Pages whose markup lacks up to MaxMissing of the elements.
InitAnyMarkup ==
  \E p \in SUBSET Elements :
    /\ Cardinality(Elements \ p) <= MaxMissing
    /\ PageLoads(p)
    /\ layout = Layout
    /\ PageMarkup

SpecInit == InitAnyMarkup /\ [][NextPage]_vars

\* The page after init() has run on the full markup with no stored theme.
PageInitialised(p) ==
  /\ present = p
  /\ readyLoading = FALSE
  /\ pc = "done"
  /\ inited = Modules
  /\ listeners = {"themeClick", "menuClick", "linkClick", "docClick", "anchorClick",
                  "scroll", "scrollTopClick", "formSubmit", "fieldBlur", "fieldInput",
                  "pageshow"}
  /\ yearSet = TRUE
  /\ headAdded = {"style", "preload"}
  /\ storage = "light"
  /\ dataTheme = "light"
  /\ iconClasses = MarkupIcon
  /\ toggleHist = <<>>
  /\ twin = TwinStart
  /\ scrollY = 0
  /\ scrollHandled = "none"
  /\ navbarScrolled = FALSE
  /\ scrollTopVisible = FALSE
  /\ activeLinks = {}
  /\ menuToggleActive = FALSE
  /\ navLinksActive = FALSE
  /\ bodyOverflow = ""
  /\ lastClick = [target |-> "none", before |-> Menu]

ObserversIdle ==
  /\ TargetsLoad(DefaultKinds)
  /\ dataAttr = [t \in Targets |-> NoItem]
  /\ observing = [o \in ObserverSet |-> {t \in Targets : targetKind[t] = o}]

\* The contact form on the initialised page, for every markup of its inputs.
InitForm ==
  /\ PageInitialised(Elements)
  /\ layout = Layout
  /\ ObserversIdle
  /\ \E cfg \in FieldConfigs : FormLoads(cfg)

NextForm ==
  \/ \E f \in Fields : Blur(f)
  \/ \E f \in Fields : \E v \in FieldValues : Input(f, v)
  \/ Submit
  \/ \E i \in 1..MaxNotifications : DismissTimer(i)
  \/ \E i \in 1..MaxNotifications : RemoveTimer(i)

SpecForm == InitForm /\ [][NextForm]_vars

\* The form as the markup ships it; every timer set with setTimeout is run
\* by the event loop once its delay has passed.
InitNotify ==
  /\ PageInitialised(Elements)
  /\ layout = Layout
  /\ ObserversIdle
  /\ fieldCfg = DefaultFields
  /\ value = [f \in Fields |-> DefaultValue(f)]
  /\ errorClass = {}
  /\ errorDivs = [g \in Fields |-> <<>>]
  /\ notes = <<>>
  /\ tracked = 0
  /\ lastEvent = Event("none", 0, TRUE, <<>>)

TimersRun ==
  \A i \in 1..MaxNotifications : WF_vars(DismissTimer(i)) /\ WF_vars(RemoveTimer(i))

SpecNotify == InitNotify /\ [][NextForm]_vars /\ TimersRun

\* validateField applied to an e-mail input holding any string of at most
\* MaxLen characters.
InitEmail ==
  /\ PageInitialised(Elements)
  /\ layout = Layout
  /\ ObserversIdle
  /\ \E cfg \in FieldConfigs :
       /\ cfg[1].type = "email"
       /\ \A f \in Fields : cfg[f].parent = f
       /\ \A f \in Fields \ {1} : cfg[f] = DefaultFields[f]
       /\ fieldCfg = cfg
  /\ \E s \in StringsUpTo(MaxLen) :
       value = [f \in Fields |-> IF f = 1 THEN s ELSE DefaultValue(f)]
  /\ errorClass = {}
  /\ errorDivs = [g \in Fields |-> <<>>]
  /\ notes = <<>>
  /\ tracked = -1
  /\ lastEvent = Event("none", 0, TRUE, <<>>)

NextEmail == \E f \in {1} : Blur(f)

SpecEmail == InitEmail /\ [][NextEmail]_vars

\* The observers on the initialised page, for every assignment of the
\* observed elements to the three collections and every data attribute.
InitObservers ==
  /\ \E kinds \in KindAssignments :
       /\ TargetsLoad(kinds)
       /\ PageInitialised(Elements \ {CollectionOf(o) : o \in ObserverSet \ {kinds[t] : t \in Targets}})
       /\ layout = Layout
  /\ observing = [o \in ObserverSet |-> ObservedAtInit(o)]
  /\ FormLoads(DefaultFields)

NextObservers ==
  \/ \E t \in Targets : ViewportChange(t)
  \/ \E t \in Targets : Notice(t)
  \/ \E o \in ObserverSet : Deliver(o)
  \/ BarTimer

SpecObservers == InitObservers /\ [][NextObservers]_vars

\* The event loop runs every observer callback that has entries queued and
\* every 200ms timer that was set.
CallbacksRun ==
  /\ \A o \in ObserverSet : WF_vars(Deliver(o))
  /\ WF_vars(BarTimer)

SpecObserversFair == InitObservers /\ [][NextObservers]_vars /\ CallbacksRun

\* Two loads of the same initialised page, each receiving its own sequence
\* of scroll events.
InitScrollPair ==
  /\ PageInitialised(Elements)
  /\ layout \in Layouts
  /\ ObserversIdle
  /\ FormLoads(DefaultFields)

NextScrollPair ==
  \/ \E y \in ScrollPositions : Scroll(y)
  \/ \E y \in ScrollPositions : ScrollTwin(y)

SpecScrollPair == InitScrollPair /\ [][NextScrollPair]_vars

\* ------------------------------------------------- claims: theme and scroll
ThemePair == {"light", "dark"}

\* C1: from a theme of 'light' or 'dark', one toggle moves the attribute and
\* the stored value to the other value of the pair, and a second toggle in a
\* row puts both back to what they were before the first.
C1_ToggleTwiceRestores ==
  /\ (Len(toggleHist) >= 1 /\ toggleHist[Len(toggleHist)].attr \in ThemePair)
       => /\ dataTheme \in ThemePair \ {toggleHist[Len(toggleHist)].attr}
          /\ storage = dataTheme
  /\ (Len(toggleHist) = 2 /\ toggleHist[1].attr \in ThemePair)
       => /\ dataTheme = toggleHist[1].attr
          /\ storage = toggleHist[1].item

C1_Witness ==
  /\ Len(toggleHist) = 2
  /\ toggleHist[1] = [attr |-> "dark", item |-> "dark"]
  /\ toggleHist[2] = [attr |-> "light", item |-> "light"]
  /\ dataTheme = "dark"

\* C2: once ThemeManager.init() has run, the stored theme equals the root's
\* data-theme attribute and is 'light' or 'dark', whatever was stored before.
C2_StoredThemeIsLightOrDark ==
  "ThemeManager" \in inited
    => storage = dataTheme /\ dataTheme \in ThemePair

\* C7: after every scroll event whose handler ran through, the scroll-to-top
\* button is visible exactly when the scroll position is greater than 500.
C7_ScrollTopVisibleIffPast500 ==
  scrollHandled = "done" => (scrollTopVisible <=> scrollY > ScrollTopThreshold)

C7_Witness ==
  /\ scrollHandled = "done"
  /\ scrollY = ScrollTopThreshold
  /\ ~scrollTopVisible
  /\ navbarScrolled

\* --------------------------------------------------------- claims: startup
InitEnded == pc \in {"done", "failed"}

\* C10 as claimed: only the contact form may be missing; each other listed
\* element's absence makes init() fail.
C10_OnlyFormTolerated ==
  InitEnded =>
    /\ (Elements \ present) \subseteq {"contactForm"} => pc = "done" /\ inited = Modules
    /\ \A e \in Elements \ {"contactForm"} :
         e \notin present => pc = "failed" /\ inited # Modules

\* The elements init() reads without a guard, and the module reading each.
ReadAtInit == {"themeToggle", "menuToggle", "navLinks", "scrollTop"}

\* The modules initialised when init() ends, given the missing elements.
ExpectedInited ==
  IF "themeToggle" \notin present THEN {}
  ELSE IF {"menuToggle", "navLinks"} \ present # {} THEN {"ThemeManager"}
  ELSE IF "scrollTop" \notin present THEN {"ThemeManager", "Navigation"}
  ELSE Modules

\* C10 (amended): init() fails exactly when themeToggle, menuToggle, navLinks
\* or scrollTop is missing, and then the failing module and those after it
\* stay uninitialised; with any of the other elements missing (contactForm,
\* year, navbar, skill bars, [data-aos] elements, lazy images) init() finishes
\* and initialises every module, a missing navbar failing only later, in the
\* scroll handler.
C10_InitFailsOnlyOnUnguardedReads ==
  InitEnded =>
    /\ pc = "failed" <=> (ReadAtInit \ present # {})
    /\ inited = ExpectedInited
    /\ pc = "done" => inited = Modules
    /\ ("navbar" \notin present /\ scrollHandled # "none") => scrollHandled = "threw"

C10_Witness ==
  /\ pc = "done"
  /\ inited = Modules
  /\ Elements \ present = {"navbar", "year"}
  /\ scrollHandled = "threw"

\* ----------------------------------------------------------- claims: form
NoErrorShown == errorClass = {} /\ \A g \in Fields : errorDivs[g] = <<>>

\* Whether validateField accepts the field holding the raw value.
Passes(f, raw) ==
  /\ ~(fieldCfg[f].required /\ Trim(raw) = <<>>)
  /\ ~(fieldCfg[f].type = "email" /\ Trim(raw) # <<>> /\ ~EmailRegexTest(Trim(raw)))

Newest == notes[Len(notes)]

JustShown(kind) ==
  /\ notes # <<>>
  /\ Newest = [kind |-> kind, inDoc |-> TRUE, animation |-> "slideIn", timer |-> "5000"]
  /\ Displayed(notes) = {Len(notes)}

HasMessage(f) ==
  \E k \in 1..Len(errorDivs[fieldCfg[f].parent]) :
    errorDivs[fieldCfg[f].parent][k].owner = f

AloneInParent(f) == \A h \in Fields \ {f} : fieldCfg[h].parent # fieldCfg[f].parent

\* C3: a submit on which every input passes validateField shows a 'success'
\* notification and leaves every field empty, with no error class and no
\* inline message anywhere.
C3_ValidSubmitSucceedsAndEmpties ==
  (lastEvent.kind = "submit" /\ \A f \in Fields : Passes(f, lastEvent.before[f]))
    => /\ lastEvent.ok
       /\ JustShown("success")
       /\ \A f \in Fields : value[f] = <<>>
       /\ NoErrorShown

C3_Witness ==
  /\ lastEvent.kind = "submit"
  /\ lastEvent.ok
  /\ \A f \in Fields : fieldCfg[f].required /\ lastEvent.before[f] # <<>>
  /\ fieldCfg[2].type = "email"
  /\ \A f \in Fields : value[f] = <<>>
  /\ JustShown("success")

\* C4: a submit on which some input fails validateField shows an 'error'
\* notification and no success one, leaves every value as it was, and marks
\* every failing field with the error class (and, when the field is alone in
\* its parent, with its inline message).
C4_InvalidSubmitBlocksAndMarksAll ==
  (lastEvent.kind = "submit" /\ \E f \in Fields : ~Passes(f, lastEvent.before[f]))
    => /\ ~lastEvent.ok
       /\ JustShown("error")
       /\ value = lastEvent.before
       /\ \A f \in Fields :
            ~Passes(f, value[f])
              => f \in errorClass /\ (AloneInParent(f) => HasMessage(f))

C4_Witness ==
  /\ lastEvent.kind = "submit"
  /\ ~lastEvent.ok
  /\ \A f \in Fields : ~Passes(f, value[f]) /\ f \in errorClass /\ HasMessage(f)
  /\ \E f \in Fields : value[f] # <<>>
  /\ JustShown("error")

Blank(raw) == \A k \in 1..Len(raw) : raw[k] \in Whitespace

\* C5: validateField on a required field whose value is empty or only
\* whitespace returns false and leaves the class and the field's message (on
\* blur, and for each call a submit makes); an input event on a field leaves
\* it without the class and without its message; a field that is not required
\* passes when empty.
C5_RequiredEmptyFailsInputClears ==
  /\ \A f \in Fields :
       LET r == ValidateField(f, Shown)
           divs == r.shown.divs[fieldCfg[f].parent]
       IN /\ (fieldCfg[f].required /\ Blank(value[f]))
               => /\ ~r.ok
                  /\ f \in r.shown.cls
                  /\ divs # <<>>
                  /\ divs[Len(divs)] = [owner |-> f, text |-> RequiredMessage]
          /\ (~fieldCfg[f].required /\ value[f] = <<>>) => r.ok
  /\ (lastEvent.kind = "blur" /\ fieldCfg[lastEvent.field].required
        /\ Blank(value[lastEvent.field]))
       => /\ ~lastEvent.ok
          /\ lastEvent.field \in errorClass
          /\ HasMessage(lastEvent.field)
  /\ (lastEvent.kind = "blur" /\ ~fieldCfg[lastEvent.field].required
        /\ value[lastEvent.field] = <<>>)
       => lastEvent.ok /\ lastEvent.field \notin errorClass
  /\ lastEvent.kind = "input"
       => lastEvent.field \notin errorClass /\ ~HasMessage(lastEvent.field)

\* An input event on a field right after its failed validation.
C5_Witness ==
  /\ lastEvent.kind = "input"
  /\ fieldCfg[lastEvent.field].required
  /\ value[lastEvent.field] # <<>>
  /\ errorClass = Fields \ {lastEvent.field}
  /\ \A h \in errorClass : HasMessage(h) /\ value[h] = <<" ">>

\* C9: at most one notification is in the document at any time.
C9_AtMostOneNotification == Cardinality(Displayed(notes)) <= 1

\* A notification replaced another whose timers are still pending.
C9_Witness ==
  /\ Len(notes) = 2
  /\ ~notes[1].inDoc
  /\ notes[1].timer = "300"
  /\ notes[2].inDoc
  /\ notes[2].kind # notes[1].kind

\* ---------------------------------------------------------- claims: e-mail
\* The shape local@domain.tld: one '@', no whitespace, something before the
\* '@', and after it a '.' with something on each side.
LocalAtDomainDotTld(s) ==
  /\ Cardinality({i \in 1..Len(s) : s[i] = "@"}) = 1
  /\ \A k \in 1..Len(s) : s[k] \notin Whitespace
  /\ LET at == CHOOSE i \in 1..Len(s) : s[i] = "@" IN
       /\ at > 1
       /\ \E j \in (at + 2)..(Len(s) - 1) : s[j] = "."

\* C6: for an e-mail field whose trimmed value is not empty, validateField
\* returns true exactly when the trimmed value has the shape local@domain.tld.
C6_EmailValidIffShape ==
  (lastEvent.kind = "blur" /\ fieldCfg[lastEvent.field].type = "email"
     /\ ~Blank(value[lastEvent.field]))
    => /\ lastEvent.ok <=> LocalAtDomainDotTld(Trim(value[lastEvent.field]))
       /\ lastEvent.ok <=> lastEvent.field \notin errorClass

C6_Witness ==
  /\ lastEvent.kind = "blur"
  /\ lastEvent.field = 1
  /\ lastEvent.ok
  /\ value[1] = <<" ", "a", "@", "a", ".", "a">>

\* ------------------------------------------------------ claims: observers
\* C8: an observed element's state (class aos-animate, the bar's width, the
\* image's src and class loaded) changes at most once: once changed it keeps
\* its value in every later step.
C8_ObservedStateChangesOnce ==
  [][\A t \in Targets :
       /\ t \in aosAnimate => t \in aosAnimate'
       /\ barWidth[t] # "" => barWidth'[t] = barWidth[t]
       /\ t \in imgLoaded => t \in imgLoaded' /\ imgSrc'[t] = imgSrc[t]
       /\ (t \notin imgLoaded /\ imgSrc'[t] # imgSrc[t]) => t \in imgLoaded'
       /\ (t \notin aosAnimate /\ t \notin imgLoaded /\ barWidth[t] = "")
            => /\ t \in aosAnimate' => targetKind[t] = "aos"
               /\ barWidth'[t] # "" => targetKind[t] = "skill"
               /\ t \in imgLoaded' => targetKind[t] = "image"]_vars

\* Every element has changed state and has since left and re-entered the
\* viewport.
C8_Witness ==
  /\ \A t \in Targets :
       \/ t \in aosAnimate
       \/ barWidth[t] # ""
       \/ t \in imgLoaded /\ imgSrc[t] # "placeholder"
  /\ \E t \in Targets : ~inView[t]
  /\ \E t \in Targets : barWidth[t] # ""

\* ------------------------------------------------ claims: active link, menu
\* The sections whose span [top, top + height) holds the position.
SectionsHolding(scrollPos) ==
  {i \in DOMAIN layout.sections :
     /\ layout.sections[i].top <= scrollPos
     /\ scrollPos < layout.sections[i].top + layout.sections[i].height}

\* C11: after a scroll event whose position scrollY + navbar height + 100 lies
\* in the span of exactly one section, and that section has a navigation
\* link, that link is the only link with class 'active'.
C11_SoleLinkedSectionIsActive ==
  (scrollHandled = "done") =>
    \A i \in DOMAIN layout.sections :
      (SectionsHolding(scrollY + layout.navbarHeight + 100) = {i}
       /\ layout.sections[i].id \in NavLinks)
        => activeLinks = {layout.sections[i].id}

C11_Witness ==
  /\ scrollHandled = "done"
  /\ layout = NestedLayout
  /\ scrollY = 500
  /\ SectionsHolding(650) = {4}
  /\ activeLinks = {"contact"}

\* C12: two sequences of scroll events on the same layout that end at the
\* same scroll position leave the same set of links with class 'active'.
C12_SamePositionSameActiveLinks ==
  (scrollHandled = "done" /\ twin.scrollHandled = "done" /\ twin.scrollY = scrollY)
    => twin.activeLinks = activeLinks

\* C13: with the menu open, a click on a menu link or outside the navbar
\* closes it; with the menu closed, a click outside the navbar leaves it
\* closed; a click inside the navbar on neither the menu button nor a menu
\* link leaves the menu's classes and the scroll lock as they were.
C13_ClicksCloseOrKeepMenu ==
  /\ (lastClick.target \in {"navLink", "outside"} /\ lastClick.before.nl)
       => (~navLinksActive /\ ~menuToggleActive /\ bodyOverflow = "")
  /\ (lastClick.target = "outside" /\ ~lastClick.before.nl)
       => ~navLinksActive
  /\ (lastClick.target \in {"themeToggle", "navbarOther"})
       => /\ menuToggleActive = lastClick.before.mt
          /\ navLinksActive = lastClick.before.nl
          /\ bodyOverflow = lastClick.before.ov

C13_Witness ==
  /\ lastClick.target = "outside"
  /\ lastClick.before.nl
  /\ lastClick.before.ov = "hidden"
  /\ ~navLinksActive

\* ------------------------------------------------- claims: notifications
TrackedDisplayed == tracked > 0 /\ notes[tracked].inDoc

\* C14: every notification shown is eventually out of the document, and it
\* leaves the document only when a later showNotification replaces it or when
\* its own 300ms timer, set by its 5000ms timer with the fade-out, removes it.
C14_ShownEventuallyRemoved ==
  /\ TrackedDisplayed ~> ~TrackedDisplayed
  /\ [][(TrackedDisplayed /\ ~TrackedDisplayed')
         => \/ Len(notes') = Len(notes) + 1 /\ notes'[Len(notes')].inDoc
            \/ /\ notes[tracked].timer = "300"
               /\ notes[tracked].animation = "slideOut"
               /\ Len(notes') = Len(notes) - 1]_vars

C14_Witness ==
  /\ lastEvent.kind = "removeTimer"
  /\ lastEvent.ok
  /\ lastEvent.notes[lastEvent.field].inDoc
  /\ tracked = 0

\* ------------------------------------------------ claims: observer callbacks
\* The skill-bar observer holds an entry that reports t as intersecting.
IntersectionQueued(t) ==
  \E k \in 1..Len(ioQueue["skill"]) :
    ioQueue["skill"][k].target = t /\ ioQueue["skill"][k].isIntersecting

\* C15: a skill bar with a data-width attribute that the observer reports as
\* intersecting eventually has that width, whether or not it has left the
\* viewport meanwhile; its width changes only when its 200ms timer fires.
C15_SkillBarEventuallyFilled ==
  /\ \A t \in Targets :
       (targetKind[t] = "skill" /\ dataAttr[t] # NoItem /\ IntersectionQueued(t))
         ~> (barWidth[t] = dataAttr[t])
  /\ [][\A t \in Targets :
         barWidth'[t] # barWidth[t]
           => /\ barTimers # <<>>
              /\ Head(barTimers).target = t
              /\ barTimers' = Tail(barTimers)
              /\ barWidth'[t] = dataAttr[t]]_vars

C15_Witness ==
  \E t \in Targets :
    /\ targetKind[t] = "skill"
    /\ barWidth[t] = "80"
    /\ dataAttr[t] = "80"
    /\ ~inView[t]
    /\ lastReported[t] = "yes"

QueuedFor(t) ==
  \E o \in ObserverSet : \E k \in 1..Len(ioQueue[o]) : ioQueue[o][k].target = t

\* C16: no observer callback's body (reveal, skill bar, lazy image) runs
\* twice for the same element, whatever entries the browser delivers.
C16_BodyRunsAtMostOnce == \A t \in Targets : runs[t] <= 1

\* C16, amended: once a callback has run its body for an element, the element
\* is no longer observed and no entry for it is queued, so no later callback
\* handles it; a callback holding only entries that report the element as not
\* intersecting changes nothing and leaves it observed.
C16_NoLaterCallbackForElement ==
  /\ \A t \in Targets :
       runs[t] > 0 => (t \notin observing[targetKind[t]] /\ ~QueuedFor(t))
  /\ \A t \in Targets :
       (runs[t] = 0 /\ CollectionOf(targetKind[t]) \in present)
         => /\ t \in observing[targetKind[t]]
            /\ t \notin aosAnimate /\ t \notin imgLoaded /\ barWidth[t] = ""

\* One callback ran its body twice for an element: the batch held two
\* intersecting entries for it.
C16_Witness ==
  \E t \in Targets :
    /\ runs[t] = 2
    /\ t \notin observing[targetKind[t]]
    /\ lastReported[t] = "yes"

\* ------------------------------------------- claims: notification timers
\* C17: when a timer of a notification that was already replaced fires, every
\* other notification is as it was: the displayed one stays in the document
\* with its animation and its own timers unchanged.
C17_StaleTimersLeaveNewerAlone ==
  (lastEvent.kind \in {"dismissTimer", "removeTimer"}
   /\ ~lastEvent.notes[lastEvent.field].inDoc)
    => LET others == IF lastEvent.kind = "removeTimer" THEN notes
                     ELSE Without(notes, lastEvent.field)
       IN  /\ others = Without(lastEvent.notes, lastEvent.field)
           /\ Len(notes) = Len(lastEvent.notes)
                            - (IF lastEvent.kind = "removeTimer" THEN 1 ELSE 0)

C17_Witness ==
  /\ lastEvent.kind = "removeTimer"
  /\ ~lastEvent.notes[lastEvent.field].inDoc
  /\ \E j \in 1..Len(notes) :
       /\ notes[j].inDoc
       /\ notes[j].animation = "slideIn"
       /\ notes[j].timer = "5000"

\* ----------------------------------------------------- claims: menu state
\* C18: after any sequence of clicks on the menu button, on menu links and
\* outside the navbar, the menu button has class 'active' exactly when the
\* link list has it, and body overflow is 'hidden' exactly when the menu is
\* open.
C18_MenuClassesAndScrollLockAgree ==
  /\ menuToggleActive <=> navLinksActive
  /\ (bodyOverflow = "hidden") <=> navLinksActive
  /\ bodyOverflow \in {"", "hidden"}

C18_Witness ==
  /\ lastClick.target = "menuToggle"
  /\ lastClick.before.nl
  /\ ~navLinksActive
  /\ bodyOverflow = ""

\* ------------------------------------------------- claims: error display
MessagesOf(f) ==
  {k \in 1..Len(errorDivs[fieldCfg[f].parent]) :
     errorDivs[fieldCfg[f].parent][k].owner = f}

\* C19: after any sequence of blur, input and submit events, each field has
\* class 'error' exactly when an inline message for it is displayed, and no
\* field has more than one message, also for fields that share a parent.
C19_ErrorClassIffOneMessage ==
  \A f \in Fields :
    /\ f \in errorClass <=> MessagesOf(f) # {}
    /\ Cardinality(MessagesOf(f)) <= 1

====
